---- MODULE Spec2Model ----
(***************************************************************************)
(* Restaurant REST API (Express handlers over a Mongoose model).           *)
(* The state is the restaurants collection, the ObjectId generator and the *)
(* requests in flight; every `await` of a handler is one step, and the     *)
(* synchronous code that follows it belongs to the same step.              *)
(***************************************************************************)
EXTENDS Integers, Sequences, FiniteSets, TLC

\* ---------------------------------------------------------------- bounds
MaxIds == 2      \* largest ObjectId the generator hands out in one run
MaxOps == 3      \* requests served in one run

Reqs == {1, 2}   \* requests the event loop has in flight at once

\* ------------------------------------------------------- values and inputs
Undefined == "<undefined>"       \* a field or query parameter that is absent
NoId == 0                        \* no _id on an element / the path text "undefined"
BadId == -1                      \* a path parameter that is not an ObjectId
ClientIds == {101}               \* ObjectIds chosen by a client in a body
GenIds == 1..MaxIds              \* ObjectIds made by the generator

NoDate == 0
NullElem == [_id |-> NoId, comment |-> Undefined, date |-> NoDate]

\* Date cast of the schema (date: Date): a parsed instant, or no instant
CastDate(s) ==
  CASE s = "2024-01-01" -> 20240101
    [] s = "2024-02-02" -> 20240202
    [] OTHER -> NoDate
DateCastableAlways(s) == TRUE
DateCastable(s) == CastDate(s) # NoDate

\* Number cast of the schema (score: Number) from a JSON literal
CastNumber(s) ==
  CASE s = "0" -> 0
    [] s = "5" -> 5
    [] OTHER -> -1

FalsyUndefinedOnly(s) == s = Undefined
\* JS truthiness of a string-valued (or absent) body field
Falsy(s) == s \in {Undefined, ""}

\* parseInt of a query parameter: a number or NaN
ParseInt(s) ==
  CASE s = "-1" -> [nan |-> FALSE, n |-> -1]
    [] s = "0" -> [nan |-> FALSE, n |-> 0]
    [] s = "1" -> [nan |-> FALSE, n |-> 1]
    [] s = "2" -> [nan |-> FALSE, n |-> 2]
    [] s = "3" -> [nan |-> FALSE, n |-> 3]
    [] OTHER -> [nan |-> TRUE, n |-> 0]

\* parseInt(x) || d
OrDefault(p, d) == IF p.nan \/ p.n = 0 THEN d ELSE p.n

Abs(n) == IF n < 0 THEN -n ELSE n

\* Math.ceil(total / limit), total >= 0, limit # 0
Ceil(total, limit) ==
  IF limit > 0 THEN (total + limit - 1) \div limit
  ELSE -(total \div (-limit))

\* req.query of GET /: well-formed page and limit under every sort, and
\* absent, zero, negative and non-numeric parameters
SortInputs == {Undefined, "name", "-name"}
Queries ==
  [limit : {"1", "2"}, page : {"1", "2"}, sort : SortInputs]
  \cup [limit : {"1"}, page : {"3"}, sort : SortInputs]
  \cup [limit : {Undefined, "0", "-1"}, page : {Undefined, "-1"}, sort : {Undefined}]
  \cup [limit : {"-1", "abc"}, page : {"2"}, sort : {Undefined}]

\* path parameters: a restaurant stored before the run, the first ObjectId
\* the run generates (no document has it until then), a malformed one
PathIds == {11, 1, BadId}
CommentPathIds == ClientIds \cup {NoId}
GradePathIds == {21, 2}

NoQuery == [limit |-> Undefined, page |-> Undefined, sort |-> Undefined]

\* req.body of POST / and PUT /:id : the fields present, uncastable or not
NoBody == [hasName |-> FALSE, name |-> Undefined, hasComments |-> FALSE,
           comments |-> <<>>, hasGrades |-> FALSE, grades |-> <<>>,
           castable |-> TRUE]
RestaurantBodies ==
  { [NoBody EXCEPT !.hasName = TRUE, !.name = "A"],
    [NoBody EXCEPT !.hasName = TRUE, !.name = "B", !.hasComments = TRUE,
       !.comments = << [_id |-> 101, comment |-> "a", date |-> "2024-01-01"] >>],
    [NoBody EXCEPT !.hasGrades = TRUE,
       !.grades = << [score |-> "5", date |-> "2024-01-01"] >>],
    [NoBody EXCEPT !.hasName = TRUE, !.name = "{}", !.castable = FALSE] }

\* req.body of the comment and grade endpoints
CommentBodies ==
  { [comment |-> "a", date |-> "2024-01-01"],
    [comment |-> "b", date |-> "2024-02-02"],
    [comment |-> "", date |-> "2024-01-01"],
    [comment |-> Undefined, date |-> "2024-01-01"],
    [comment |-> "a", date |-> ""],
    [comment |-> "a", date |-> Undefined],
    [comment |-> "b", date |-> "notadate"] }
GradeBodies ==
  { [score |-> "0", date |-> "2024-02-02"],
    [score |-> "5", date |-> "2024-01-01"],
    [score |-> Undefined, date |-> "2024-01-01"],
    [score |-> "0", date |-> ""],
    [score |-> "5", date |-> Undefined],
    [score |-> "5", date |-> "notadate"] }
NoCommentBody == [comment |-> Undefined, date |-> Undefined]
NoGradeBody == [score |-> Undefined, date |-> Undefined]

VARIABLES db, nextId, req, res, ops, proc
vars == <<db, nextId, req, res, ops, proc>>


\* ------------------------------------------------------------ documents
NoDoc == [_id |-> NoId, name |-> Undefined, comments |-> <<>>,
          grades |-> <<>>, v |-> 0]

\* cast of a body's comments by the comments sub-schema: _id is a declared
\* path without default, so an element keeps the _id it came with or has none
CastComment(c) ==
  [_id |-> c._id, comment |-> c.comment, date |-> CastDate(c.date)]
CastComments(cs) == [i \in 1..Len(cs) |-> CastComment(cs[i])]

\* cast of a body's grades by the grades sub-schema: no _id path is
\* declared, so every element gets a generated _id, first .. first+n-1
CastGrades(gs, first) ==
  [i \in 1..Len(gs) |->
     [_id |-> first + i - 1, score |-> CastNumber(gs[i].score),
      date |-> CastDate(gs[i].date)]]

NewRestaurantSameId(body, id) ==
  [_id |-> 11,
   name |-> IF body.hasName THEN body.name ELSE Undefined,
   comments |-> CastComments(body.comments),
   grades |-> CastGrades(body.grades, id + 1),
   v |-> 0]
\* new Restaurant(req.body): generated _id, arrays default to []
NewRestaurant(body, id) ==
  [_id |-> id,
   name |-> IF body.hasName THEN body.name ELSE Undefined,
   comments |-> CastComments(body.comments),
   grades |-> CastGrades(body.grades, id + 1),
   v |-> 0]

MergeNothing(d, body, first) == d
\* the document after $set of the fields the body names
MergeRestaurant(d, body, first) ==
  [d EXCEPT
     !.name = IF body.hasName THEN body.name ELSE @,
     !.comments = IF body.hasComments THEN CastComments(body.comments) ELSE @,
     !.grades = IF body.hasGrades THEN CastGrades(body.grades, first) ELSE @]

\* --------------------------------------------------------- the collection
Insert(store, d) == store @@ (d._id :> d)
RemoveNothing(store, id) == store
Remove(store, id) == [i \in DOMAIN store \ {id} |-> store[i]]
Replace(store, d) == [store EXCEPT ![d._id] = d]

NameRank(n) == CASE n = "A" -> 1 [] n = "B" -> 2 [] OTHER -> 0

\* sort key of a document under a sort string; a field no document has
\* (createdAt: the schema sets no timestamps) gives every document the same key
SortKey(sort, d) ==
  CASE sort = "name" -> NameRank(d.name)
    [] sort = "-name" -> -NameRank(d.name)
    [] OTHER -> 0

\* every sequence that lists each member of S once
RECURSIVE Orderings(_)
Orderings(S) ==
  IF S = {} THEN {<<>>}
  ELSE UNION {{<<x>> \o p : p \in Orderings(S \ {x})} : x \in S}

\* the orders find().sort(sort) may return: documents with equal keys
\* come in any order
RECURSIVE SortedIds(_, _, _)
SortedIds(store, sort, S) ==
  IF S = {} THEN {<<>>}
  ELSE UNION {{<<x>> \o p : p \in SortedIds(store, sort, S \ {x})} :
                x \in {y \in S : \A z \in S :
                         SortKey(sort, store[y]) <= SortKey(sort, store[z])}}
SortedOrders(store, sort) ==
  {[i \in DOMAIN p |-> store[p[i]]] : p \in SortedIds(store, sort, DOMAIN store)}

\* .skip(skip).limit(limit) of an ordered result
Slice(s, skip, limit) ==
  SubSeq(s, skip + 1, IF skip + limit < Len(s) THEN skip + limit ELSE Len(s))

\* array.id(id): position of the first element whose _id is id, 0 if none;
\* an element without _id is skipped
IndexOfId(seq, id) ==
  LET hits == {i \in 1..Len(seq) : seq[i]._id # NoId /\ seq[i]._id = id}
  IN IF hits = {} THEN 0 ELSE CHOOSE i \in hits : \A j \in hits : i <= j

PullFirst(seq, id) == IF seq = <<>> THEN seq ELSE Tail(seq)
\* $pull: {array: {_id: {$in: [id]}}}
PullId(seq, id) == SelectSeq(seq, LAMBDA e : e._id # id)

SetAtFront(seq, idx, new, blank) == [seq EXCEPT ![1] = new]
\* $set of fields of array element idx (1-based); the server pads a shorter
\* array up to the position
SetAt(seq, idx, new, blank) ==
  [i \in 1..(IF idx > Len(seq) THEN idx ELSE Len(seq)) |->
     IF i = idx THEN new ELSE IF i <= Len(seq) THEN seq[i] ELSE blank]

\* --------------------------------------------------- stored collections
\* collections earlier runs of the same handlers left in the store
SeedDoc(id, name, comments, grades) ==
  [_id |-> id, name |-> name, comments |-> comments, grades |-> grades, v |-> 0]
SeedComment == [_id |-> 101, comment |-> "a", date |-> 20240101]
SeedPlain == [_id |-> NoId, comment |-> "b", date |-> 20240202]
SeedGrade == [_id |-> 21, score |-> 5, date |-> 20240101]
SeedOld == [_id |-> 101, comment |-> "c", date |-> 20240101]
SeedRace == 11 :> SeedDoc(11, "B", <<SeedOld>>, <<SeedGrade>>)
SeedRated ==
  (11 :> SeedDoc(11, "B", <<SeedPlain, SeedComment>>, <<SeedGrade>>))
    @@ (12 :> SeedDoc(12, "A", <<>>, <<>>))
SeedThree ==
  (11 :> SeedDoc(11, "B", <<SeedComment>>, <<>>))
    @@ (12 :> SeedDoc(12, "A", <<>>, <<>>))
    @@ (13 :> SeedDoc(13, "A", <<>>, <<>>))

\* ---------------------------------------------------------------- process
\* router.METHOD(path, handler) of the routes module, in source order
Route(m, p, h) == [method |-> m, path |-> p, handler |-> h]
RestaurantRoutes ==
  << Route("GET", "/", "getAllRestaurants"),
     Route("POST", "/", "createRestaurant"),
     Route("PUT", "/:id", "updateRestaurant"),
     Route("DELETE", "/:id", "deleteRestaurant"),
     Route("GET", "/:id/comments", "getAllCommentsById"),
     Route("PUT", "/:id/comments/:commentId", "updateCommentById"),
     Route("POST", "/:id/comments", "addComment"),
     Route("DELETE", "/:id/comments/:commentId", "deleteCommentById"),
     Route("GET", "/:id/grades", "getGradesByRestaurantId"),
     Route("PUT", "/:id/grades/:gradeId", "updateGradeById"),
     Route("DELETE", "/:id/grades/:gradeId", "deleteGradeById"),
     Route("POST", "/:id/grades", "addGrade"),
     Route("GET", "/search", "searchAndSortRestaurants") >>
\* the routes module of the second source tree: it ends with updateGradeById
EarlierRoutes == SubSeq(RestaurantRoutes, 1, 10)

\* exports.<name> of the two controller modules
ControllerExports ==
  {"getAllRestaurants", "createRestaurant", "updateRestaurant",
   "deleteRestaurant", "getAllCommentsById", "updateCommentById",
   "addComment", "deleteCommentById", "getGradesByRestaurantId",
   "updateGradeById"}
EarlierExports ==
  {"getAllRestaurants", "createRestaurant", "updateRestaurant",
   "deleteRestaurant", "getAllCommentsById", "updateCommentById",
   "addComment"}

\* the modules server.js resolves its requires to: the repository holds two
\* routes modules and two controller modules
Trees == {"routes+controller", "routes+earlierController",
          "earlierRoutes+controller"}
RoutesOf(tree) ==
  IF tree = "earlierRoutes+controller" THEN EarlierRoutes ELSE RestaurantRoutes
ExportsOf(tree) ==
  IF tree = "routes+earlierController" THEN EarlierExports ELSE ControllerExports

\* Route.METHOD throws on a handler that is undefined; the first such binding
\* of the routes module, 0 when every binding has its handler
FirstUnbound(routes, exports) ==
  LET bad == {i \in 1..Len(routes) : routes[i].handler \notin exports}
  IN IF bad = {} THEN 0 ELSE CHOOSE i \in bad : \A j \in bad : i <= j

\* a process that listens with its connection open
Running(tree) ==
  [phase |-> "listening", conn |-> "open", tree |-> tree,
   connects |-> 1, exit |-> 0]
Booting(tree) ==
  [phase |-> "boot", conn |-> "none", tree |-> tree,
   connects |-> 0, exit |-> 0]

\* --------------------------------------------------------------- requests
Idle == [op |-> "none", pc |-> "idle", id |-> NoId, sub |-> NoId,
         rbody |-> NoBody, cbody |-> NoCommentBody, gbody |-> NoGradeBody,
         q |-> NoQuery, doc |-> NoDoc, idx |-> 0, found |-> <<>>,
         status |-> 0, message |-> "", data |-> <<>>]
NoRes == Idle

\* a request arrives at a listening process while the run still serves
\* requests
Arrives(r) ==
  /\ proc.phase = "listening"
  /\ req[r].pc = "idle"
  /\ ops < MaxOps
  /\ ops' = ops + 1

\* a store operation a handler awaits is buffered until the connection is
\* open: only then does the handler resume
Resumes(r) == req[r].pc # "idle" => proc.conn = "open"

\* the handler reaches its next await with local state rec
Await(r, rec) ==
  /\ Resumes(r)
  /\ req' = [req EXCEPT ![r] = rec]
  /\ res' = NoRes
  /\ UNCHANGED proc

RespondNothing(r, rec, s, m, d) ==
  /\ Resumes(r)
  /\ req' = [req EXCEPT ![r] = Idle]
  /\ res' = NoRes
  /\ UNCHANGED proc
\* res.status(s).json(...): the response of request rec, which ends
Respond(r, rec, s, m, d) ==
  /\ Resumes(r)
  /\ req' = [req EXCEPT ![r] = Idle]
  /\ res' = [rec EXCEPT !.pc = "done", !.status = s, !.message = m, !.data = d]
  /\ UNCHANGED proc
\* the response a catch block sends
RespondFromCatch(r, rec, s, m) ==
  /\ req' = [req EXCEPT ![r] = Idle]
  /\ res' = [rec EXCEPT !.pc = "done", !.status = s, !.message = m, !.data = <<>>]
  /\ UNCHANGED proc

InitFrom(seeds) ==
  /\ db \in seeds
  /\ nextId = 1
  /\ req = [r \in Reqs |-> Idle]
  /\ res = NoRes
  /\ ops = 0
  /\ proc = Running("earlierRoutes+controller")

\* ------------------------------------------------------ getAllRestaurants
LimitOf(q) == OrDefault(ParseInt(q.limit), 10)
PageOf(q) == OrDefault(ParseInt(q.page), 1)
SortOf(q) == IF Falsy(q.sort) THEN "-createdAt" ELSE q.sort
SkipOfPage(q) == PageOf(q) * LimitOf(q)
SkipOf(q) == (PageOf(q) - 1) * LimitOf(q)

StartGetAllRestaurants(r) ==
  /\ Arrives(r)
  /\ \E q \in Queries :
       Await(r, [Idle EXCEPT !.op = "getAllRestaurants", !.pc = "find", !.q = q])
  /\ UNCHANGED <<db, nextId>>

\* await Restaurant.find().sort(sort).skip(skip).limit(limit)
FindRestaurants(r) ==
  /\ req[r].op = "getAllRestaurants" /\ req[r].pc = "find"
  /\ LET q == req[r].q IN
       IF SkipOf(q) < 0
       THEN Respond(r, req[r], 500, "Skip value must be non-negative", <<>>)
       ELSE \E ord \in SortedOrders(db, SortOf(q)) :
              Await(r, [req[r] EXCEPT
                          !.pc = "count",
                          !.found = Slice(ord, SkipOf(q), Abs(LimitOf(q)))])
  /\ UNCHANGED <<db, nextId, ops>>

\* await Restaurant.countDocuments(); res.status(200).json({...})
CountRestaurants(r) ==
  /\ req[r].op = "getAllRestaurants" /\ req[r].pc = "count"
  /\ LET q == req[r].q
         total == Cardinality(DOMAIN db)
     IN Respond(r, req[r], 200, "",
                [total |-> total, page |-> PageOf(q),
                 pages |-> Ceil(total, LimitOf(q)), limit |-> LimitOf(q),
                 data |-> req[r].found])
  /\ UNCHANGED <<db, nextId, ops>>

\* ------------------------------------------------------- createRestaurant
\* new Restaurant(req.body) runs before the first await and draws the ids
StartCreateRestaurant(r) ==
  /\ Arrives(r)
  /\ \E body \in RestaurantBodies :
       /\ nextId + Len(body.grades) <= MaxIds
       /\ Await(r, [Idle EXCEPT !.op = "createRestaurant", !.pc = "save",
                                !.rbody = body,
                                !.doc = NewRestaurant(body, nextId)])
       /\ nextId' = nextId + 1 + Len(body.grades)
  /\ UNCHANGED db

\* await restaurant.save(): validation, then the insert
SaveNewRestaurant(r) ==
  /\ req[r].op = "createRestaurant" /\ req[r].pc = "save"
  /\ IF ~req[r].rbody.castable
     THEN /\ Respond(r, req[r], 400, "Restaurant validation failed", <<>>)
          /\ UNCHANGED db
     ELSE /\ db' = Insert(db, req[r].doc)
          /\ Respond(r, req[r], 201, "", req[r].doc)
  /\ UNCHANGED <<nextId, ops>>

\* ------------------------------------------------------- updateRestaurant
\* the update is cast when the query is built: grades draw their ids here
StartUpdateRestaurant(r) ==
  /\ Arrives(r)
  /\ \E id \in PathIds, body \in RestaurantBodies :
       /\ nextId + Len(body.grades) <= MaxIds + 1
       /\ Await(r, [Idle EXCEPT !.op = "updateRestaurant", !.pc = "findAndUpdate",
                                !.id = id, !.rbody = body, !.idx = nextId])
       /\ nextId' = nextId + Len(body.grades)
  /\ UNCHANGED db

\* await Restaurant.findByIdAndUpdate(id, body, {new: true, runValidators: true})
FindByIdAndUpdate(r) ==
  /\ req[r].op = "updateRestaurant" /\ req[r].pc = "findAndUpdate"
  /\ LET id == req[r].id
         body == req[r].rbody
     IN IF id = BadId \/ ~body.castable
        THEN /\ Respond(r, req[r], 500, "Error al actualizar el restaurante", <<>>)
             /\ UNCHANGED db
        ELSE IF id \notin DOMAIN db
        THEN /\ Respond(r, req[r], 404, "Restaurante no encontrado", <<>>)
             /\ UNCHANGED db
        ELSE LET d == MergeRestaurant(db[id], body, req[r].idx)
             IN /\ db' = Replace(db, d)
                /\ Respond(r, req[r], 200, "", d)
  /\ UNCHANGED <<nextId, ops>>

\* ------------------------------------------------------- deleteRestaurant
StartDeleteRestaurant(r) ==
  /\ Arrives(r)
  /\ \E id \in PathIds :
       Await(r, [Idle EXCEPT !.op = "deleteRestaurant", !.pc = "findAndDelete",
                             !.id = id])
  /\ UNCHANGED <<db, nextId>>

\* await Restaurant.findByIdAndDelete(id)
FindByIdAndDelete(r) ==
  /\ req[r].op = "deleteRestaurant" /\ req[r].pc = "findAndDelete"
  /\ LET id == req[r].id
     IN IF id = BadId
        THEN /\ Respond(r, req[r], 500, "Error al eliminar el restaurante", <<>>)
             /\ UNCHANGED db
        ELSE IF id \notin DOMAIN db
        THEN /\ Respond(r, req[r], 404, "Restaurante no encontrado", <<>>)
             /\ UNCHANGED db
        ELSE /\ db' = Remove(db, id)
             /\ Respond(r, req[r], 200, "", db[id])
  /\ UNCHANGED <<nextId, ops>>

\* ----------------------------------------------------- getAllCommentsById
StartGetAllCommentsById(r) ==
  /\ Arrives(r)
  /\ \E id \in PathIds :
       Await(r, [Idle EXCEPT !.op = "getAllCommentsById", !.pc = "find", !.id = id])
  /\ UNCHANGED <<db, nextId>>

FindCommentsOfNone(r) ==
  /\ req[r].op = "getAllCommentsById" /\ req[r].pc = "find"
  /\ Respond(r, req[r], IF req[r].id \in DOMAIN db THEN 200 ELSE 404, "", <<>>)
  /\ UNCHANGED <<db, nextId, ops>>

\* await Restaurant.findById(id).select("comments")
FindComments(r) ==
  /\ req[r].op = "getAllCommentsById" /\ req[r].pc = "find"
  /\ LET id == req[r].id
     IN IF id = BadId
        THEN Respond(r, req[r], 500, "Cast to ObjectId failed", <<>>)
        ELSE IF id \notin DOMAIN db
        THEN Respond(r, req[r], 404, "Restaurante no encontrado", <<>>)
        ELSE Respond(r, req[r], 200, "", db[id].comments)
  /\ UNCHANGED <<db, nextId, ops>>

\* ------------------------------------------------- sub-document mutators
CommentsOf(d) == d.comments
GradesOf(d) == d.grades
ArrayOf(path, d) == IF path = "grades" THEN GradesOf(d) ELSE CommentsOf(d)

\* await Restaurant.findById(id) of a mutator, then the element lookup
\* (lookup = FALSE for an append) and the change in memory; next is the save
FindParent(r, lookup, path, missing) ==
  LET id == req[r].id
  IN IF id = BadId
     THEN Respond(r, req[r], 500, "Cast to ObjectId failed", <<>>)
     ELSE IF id \notin DOMAIN db
     THEN Respond(r, req[r], 404, "Restaurante no encontrado", <<>>)
     ELSE IF lookup /\ IndexOfId(ArrayOf(path, db[id]), req[r].sub) = 0
     THEN Respond(r, req[r], 404, missing, <<>>)
     ELSE Await(r, [req[r] EXCEPT
                      !.pc = "save", !.doc = db[id],
                      !.idx = IF lookup THEN IndexOfId(ArrayOf(path, db[id]), req[r].sub)
                              ELSE 0])


\* the version increment and the version condition of a save (Mongoose
\* versioning): $push and $pull increment __v, a $set below an array
\* position requires the __v the document was loaded with
Matches(store, id, v, where) ==
  id \in DOMAIN store /\ (where => store[id].v = v)

\* ------------------------------------------------------------- addComment
PushedComment(body) ==
  [_id |-> NoId, comment |-> body.comment, date |-> CastDate(body.date)]

StartAddComment(r) ==
  /\ Arrives(r)
  /\ \E id \in PathIds, body \in CommentBodies :
       LET rec == [Idle EXCEPT !.op = "addComment", !.pc = "find",
                               !.id = id, !.cbody = body]
       IN IF Falsy(body.comment) \/ Falsy(body.date)
          THEN Respond(r, rec, 400, "Datos incompletos para agregar el comentario", <<>>)
          ELSE Await(r, rec)
  /\ UNCHANGED <<db, nextId>>

FindForAddComment(r) ==
  /\ req[r].op = "addComment" /\ req[r].pc = "find"
  /\ FindParent(r, FALSE, "comments", "")
  /\ UNCHANGED <<db, nextId, ops>>

SaveAddCommentWholeDocument(r) ==
  /\ req[r].op = "addComment" /\ req[r].pc = "save"
  /\ LET id == req[r].id
         new == PushedComment(req[r].cbody)
     IN IF ~DateCastable(req[r].cbody.date) \/ ~Matches(db, id, 0, FALSE)
        THEN /\ Respond(r, req[r], 500, "Error al agregar el comentario", <<>>)
             /\ UNCHANGED db
        ELSE /\ db' = [db EXCEPT ![id] =
                         [req[r].doc EXCEPT !.comments = Append(@, new),
                                            !.v = db[id].v + 1]]
             /\ Respond(r, req[r], 201, "", Append(req[r].doc.comments, new))
  /\ UNCHANGED <<nextId, ops>>
\* restaurant.comments.push({comment, date}); await restaurant.save();
\* res.status(201).json(restaurant.comments)
SaveAddComment(r) ==
  /\ req[r].op = "addComment" /\ req[r].pc = "save"
  /\ LET id == req[r].id
         new == PushedComment(req[r].cbody)
     IN IF ~DateCastable(req[r].cbody.date) \/ ~Matches(db, id, 0, FALSE)
        THEN /\ Respond(r, req[r], 500, "Error al agregar el comentario", <<>>)
             /\ UNCHANGED db
        ELSE /\ db' = [db EXCEPT ![id].comments = Append(@, new),
                                 ![id].v = @ + 1]
             /\ Respond(r, req[r], 201, "", Append(req[r].doc.comments, new))
  /\ UNCHANGED <<nextId, ops>>

\* ------------------------------------------------------ updateCommentById
StartUpdateCommentById(r) ==
  /\ Arrives(r)
  /\ \E id \in PathIds, cid \in CommentPathIds, body \in CommentBodies :
       LET rec == [Idle EXCEPT !.op = "updateCommentById", !.pc = "find",
                               !.id = id, !.sub = cid, !.cbody = body]
       IN IF Falsy(body.comment) \/ Falsy(body.date)
          THEN Respond(r, rec, 400,
                       "Datos incompletos para actualizar el comentario", <<>>)
          ELSE Await(r, rec)
  /\ UNCHANGED <<db, nextId>>

FindForUpdateComment(r) ==
  /\ req[r].op = "updateCommentById" /\ req[r].pc = "find"
  /\ FindParent(r, TRUE, "comments", "Comentario no encontrado")
  /\ UNCHANGED <<db, nextId, ops>>

SaveUpdateCommentChecked(r) ==
  /\ req[r].op = "updateCommentById" /\ req[r].pc = "save"
  /\ LET id == req[r].id
         new == [req[r].doc.comments[req[r].idx] EXCEPT
                   !.comment = req[r].cbody.comment,
                   !.date = CastDate(req[r].cbody.date)]
     IN IF /\ id \in DOMAIN db /\ db[id] = req[r].doc
           /\ DateCastable(req[r].cbody.date)
        THEN /\ db' = [db EXCEPT ![id].comments[req[r].idx] = new]
             /\ Respond(r, req[r], 200, "", new)
        ELSE /\ Respond(r, req[r], 500, "Error al actualizar el comentario", <<>>)
             /\ UNCHANGED db
  /\ UNCHANGED <<nextId, ops>>

\* commentToUpdate.comment = comment; commentToUpdate.date = date;
\* await restaurant.save(); res.status(200).json(commentToUpdate)
SaveUpdateComment(r) ==
  /\ req[r].op = "updateCommentById" /\ req[r].pc = "save"
  /\ LET id == req[r].id
         idx == req[r].idx
         old == req[r].doc.comments[idx]
         new == [old EXCEPT !.comment = req[r].cbody.comment,
                            !.date = CastDate(req[r].cbody.date)]
         \* only the fields whose value changed are sent in the $set
         set(e) == [e EXCEPT
                      !.comment = IF new.comment # old.comment THEN new.comment ELSE @,
                      !.date = IF new.date # old.date THEN new.date ELSE @]
     IN IF \/ ~DateCastable(req[r].cbody.date)
           \/ ~Matches(db, id, req[r].doc.v, new # old)
        THEN /\ Respond(r, req[r], 500, "Error al actualizar el comentario", <<>>)
             /\ UNCHANGED db
        ELSE /\ db' = IF new = old THEN db
                      ELSE LET cur == db[id].comments
                           IN [db EXCEPT ![id].comments =
                                 SetAt(cur, idx,
                                       set(IF idx <= Len(cur) THEN cur[idx]
                                           ELSE NullElem),
                                       NullElem)]
             /\ Respond(r, req[r], 200, "", new)
  /\ UNCHANGED <<nextId, ops>>

\* ------------------------------------------------------ deleteCommentById
StartDeleteCommentById(r) ==
  /\ Arrives(r)
  /\ \E id \in PathIds, cid \in CommentPathIds :
       Await(r, [Idle EXCEPT !.op = "deleteCommentById", !.pc = "find",
                             !.id = id, !.sub = cid])
  /\ UNCHANGED <<db, nextId>>

FindForDeleteComment(r) ==
  /\ req[r].op = "deleteCommentById" /\ req[r].pc = "find"
  /\ FindParent(r, TRUE, "comments", "Comentario no encontrado")
  /\ UNCHANGED <<db, nextId, ops>>

\* restaurant.comments.pull(commentId); await restaurant.save()
SaveDeleteCommentUpsert(r) ==
  /\ req[r].op = "deleteCommentById" /\ req[r].pc = "save"
  /\ LET id == req[r].id
         doc == IF id \in DOMAIN db THEN db[id] ELSE req[r].doc
     IN /\ db' = (id :> [doc EXCEPT !.comments = PullId(@, req[r].sub),
                                    !.v = @ + 1]) @@ db
        /\ Respond(r, req[r], 200, "Comentario eliminado con éxito", <<>>)
  /\ UNCHANGED <<nextId, ops>>
SaveDeleteComment(r) ==
  /\ req[r].op = "deleteCommentById" /\ req[r].pc = "save"
  /\ LET id == req[r].id
     IN IF ~Matches(db, id, 0, FALSE)
        THEN /\ Respond(r, req[r], 500, "Error al eliminar el comentario", <<>>)
             /\ UNCHANGED db
        ELSE /\ db' = [db EXCEPT ![id].comments = PullId(@, req[r].sub),
                                 ![id].v = @ + 1]
             /\ Respond(r, req[r], 200, "Comentario eliminado con éxito", <<>>)
  /\ UNCHANGED <<nextId, ops>>

\* ------------------------------------------------ getGradesByRestaurantId
StartGetGradesByRestaurantId(r) ==
  /\ Arrives(r)
  /\ \E id \in PathIds :
       Await(r, [Idle EXCEPT !.op = "getGradesByRestaurantId", !.pc = "find",
                             !.id = id])
  /\ UNCHANGED <<db, nextId>>

FindGradesAndDelete(r) ==
  /\ req[r].op = "getGradesByRestaurantId" /\ req[r].pc = "find"
  /\ LET id == req[r].id
     IN IF id = BadId
        THEN /\ Respond(r, req[r], 500, "Error al obtener las calificaciones", <<>>)
             /\ UNCHANGED db
        ELSE IF id \notin DOMAIN db
        THEN /\ Respond(r, req[r], 404, "Restaurante no encontrado", <<>>)
             /\ UNCHANGED db
        ELSE /\ db' = Remove(db, id)
             /\ Respond(r, req[r], 200, "", db[id].grades)
  /\ UNCHANGED <<nextId, ops>>
\* await Restaurant.findById(id)
FindGrades(r) ==
  /\ req[r].op = "getGradesByRestaurantId" /\ req[r].pc = "find"
  /\ LET id == req[r].id
     IN IF id = BadId
        THEN Respond(r, req[r], 500, "Error al obtener las calificaciones", <<>>)
        ELSE IF id \notin DOMAIN db
        THEN Respond(r, req[r], 404, "Restaurante no encontrado", <<>>)
        ELSE Respond(r, req[r], 200, "", db[id].grades)
  /\ UNCHANGED <<db, nextId, ops>>

\* -------------------------------------------------------- updateGradeById
GradeIncompleteFalsyScore(body) ==
  body.score \in {Undefined, "0"} \/ Falsy(body.date)
\* score === undefined || !date
GradeIncomplete(body) == body.score = Undefined \/ Falsy(body.date)

StartUpdateGradeByIdLoadFirst(r) ==
  /\ Arrives(r)
  /\ \E id \in PathIds, gid \in GradePathIds, body \in GradeBodies :
       Await(r, [Idle EXCEPT !.op = "updateGradeById", !.pc = "find",
                             !.id = id, !.sub = gid, !.gbody = body])
  /\ UNCHANGED <<db, nextId>>
StartUpdateGradeById(r) ==
  /\ Arrives(r)
  /\ \E id \in PathIds, gid \in GradePathIds, body \in GradeBodies :
       LET rec == [Idle EXCEPT !.op = "updateGradeById", !.pc = "find",
                               !.id = id, !.sub = gid, !.gbody = body]
       IN IF GradeIncomplete(body)
          THEN Respond(r, rec, 400,
                       "Datos incompletos para actualizar la calificación", <<>>)
          ELSE Await(r, rec)
  /\ UNCHANGED <<db, nextId>>

FindForUpdateGrade(r) ==
  /\ req[r].op = "updateGradeById" /\ req[r].pc = "find"
  /\ FindParent(r, TRUE, "grades", "Calificación no encontrada")
  /\ UNCHANGED <<db, nextId, ops>>

NullGrade == [_id |-> NoId, score |-> -1, date |-> NoDate]

\* gradeToUpdate.score = score; gradeToUpdate.date = date;
\* await restaurant.save(); res.status(200).json(gradeToUpdate)
SaveUpdateGrade(r) ==
  /\ req[r].op = "updateGradeById" /\ req[r].pc = "save"
  /\ LET id == req[r].id
         idx == req[r].idx
         old == req[r].doc.grades[idx]
         new == [old EXCEPT !.score = CastNumber(req[r].gbody.score),
                            !.date = CastDate(req[r].gbody.date)]
         set(e) == [e EXCEPT
                      !.score = IF new.score # old.score THEN new.score ELSE @,
                      !.date = IF new.date # old.date THEN new.date ELSE @]
     IN IF \/ ~DateCastable(req[r].gbody.date)
           \/ ~Matches(db, id, req[r].doc.v, new # old)
        THEN /\ Respond(r, req[r], 500, "Error al actualizar la calificación", <<>>)
             /\ UNCHANGED db
        ELSE /\ db' = IF new = old THEN db
                      ELSE LET cur == db[id].grades
                           IN [db EXCEPT ![id].grades =
                                 SetAt(cur, idx,
                                       set(IF idx <= Len(cur) THEN cur[idx]
                                           ELSE NullGrade),
                                       NullGrade)]
             /\ Respond(r, req[r], 200, "", new)
  /\ UNCHANGED <<nextId, ops>>

\* ----------------------------------------------------------- catch blocks
\* err.message of an operation the store could not carry out (connection
\* lost, command buffering timed out)
StoreError == "MongoNetworkError"

\* the status each handler's catch block sends
CatchStatus(op) == IF op = "createRestaurant" THEN 400 ELSE 500

CatchMessageNone(op) == ""
\* the message each handler's catch block sends
CatchMessage(op) ==
  CASE op \in {"getAllRestaurants", "createRestaurant", "getAllCommentsById"} ->
         StoreError
    [] op = "updateRestaurant" -> "Error al actualizar el restaurante"
    [] op = "deleteRestaurant" -> "Error al eliminar el restaurante"
    [] op = "updateCommentById" -> "Error al actualizar el comentario"
    [] op = "addComment" -> "Error al agregar el comentario"
    [] op = "deleteCommentById" -> "Error al eliminar el comentario"
    [] op = "getGradesByRestaurantId" -> "Error al obtener las calificaciones"
    [] OTHER -> "Error al actualizar la calificación"

\* the store operation request r awaits rejects with StoreError (a failure of
\* the store, or a buffered operation that timed out before the connection
\* opened): control passes to the catch block of the handler, nothing is
\* written
StoreRejects(r) ==
  /\ proc.phase = "listening"
  /\ req[r].pc # "idle"
  /\ RespondFromCatch(r, req[r], CatchStatus(req[r].op), CatchMessage(req[r].op))
  /\ UNCHANGED <<db, nextId, ops>>

\* ---------------------------------------------------------------- startup
\* server.js runs to its end in one turn: connectDB() is called and not
\* awaited, the routes module is required (its bindings throw on an
\* undefined handler, which ends the process with exit code 1), app.listen
Bootstrap ==
  /\ proc.phase = "boot"
  /\ LET bad == FirstUnbound(RoutesOf(proc.tree), ExportsOf(proc.tree))
     IN proc' = [proc EXCEPT !.conn = "connecting",
                             !.connects = @ + 1,
                             !.phase = IF bad = 0 THEN "listening" ELSE "crashed",
                             !.exit = IF bad = 0 THEN 0 ELSE 1]
  /\ UNCHANGED <<db, nextId, req, res, ops>>

\* GET /search arrives at a router that has no binding for it: no layer
\* matches and Express answers with its own 404
SearchUnrouted(r) ==
  /\ Arrives(r)
  /\ \A i \in 1..Len(RoutesOf(proc.tree)) :
       ~ (RoutesOf(proc.tree)[i].method = "GET"
          /\ RoutesOf(proc.tree)[i].path = "/search")
  /\ Respond(r, [Idle EXCEPT !.op = "searchAndSortRestaurants"], 404,
             "Cannot GET /api/restaurants/search", <<>>)
  /\ UNCHANGED <<db, nextId>>

\* await mongoose.connect(uri) resolves
ConnectionOpens ==
  /\ proc.phase = "listening"
  /\ proc.conn = "connecting"
  /\ proc' = [proc EXCEPT !.conn = "open"]
  /\ res' = NoRes
  /\ UNCHANGED <<db, nextId, req, ops>>

ConnectionFailsLogged ==
  /\ proc.phase = "listening"
  /\ proc.conn = "connecting"
  /\ proc' = [proc EXCEPT !.conn = "failed"]
  /\ res' = NoRes
  /\ UNCHANGED <<db, nextId, req, ops>>
\* await mongoose.connect(uri) rejects: catch, process.exit(1)
ConnectionFails ==
  /\ proc.phase = "listening"
  /\ proc.conn = "connecting"
  /\ proc' = [proc EXCEPT !.conn = "failed", !.phase = "exited",
                          !.exit = 1]
  /\ res' = NoRes
  /\ UNCHANGED <<db, nextId, req, ops>>

NextCrud ==
  \E r \in Reqs :
    \/ StartCreateRestaurant(r) \/ SaveNewRestaurant(r)
    \/ StartUpdateRestaurant(r) \/ FindByIdAndUpdate(r)
    \/ StartDeleteRestaurant(r) \/ FindByIdAndDelete(r)

NextListing ==
  \E r \in Reqs :
    \/ StartGetAllRestaurants(r) \/ FindRestaurants(r) \/ CountRestaurants(r)
    \/ StartCreateRestaurant(r) \/ SaveNewRestaurant(r)
    \/ StartDeleteRestaurant(r) \/ FindByIdAndDelete(r)

NextComments ==
  \E r \in Reqs :
    \/ StartGetAllCommentsById(r) \/ FindComments(r)
    \/ StartAddComment(r) \/ FindForAddComment(r) \/ SaveAddComment(r)
    \/ StartUpdateCommentById(r) \/ FindForUpdateComment(r) \/ SaveUpdateComment(r)
    \/ StartDeleteCommentById(r) \/ FindForDeleteComment(r) \/ SaveDeleteComment(r)
    \/ StartDeleteRestaurant(r) \/ FindByIdAndDelete(r)

NextGrades ==
  \E r \in Reqs :
    \/ StartGetGradesByRestaurantId(r) \/ FindGrades(r)
    \/ StartUpdateGradeById(r) \/ FindForUpdateGrade(r) \/ SaveUpdateGrade(r)
    \/ StartUpdateCommentById(r) \/ FindForUpdateComment(r) \/ SaveUpdateComment(r)
    \/ StartCreateRestaurant(r) \/ SaveNewRestaurant(r)

NextReads ==
  \E r \in Reqs :
    \/ StartGetAllCommentsById(r) \/ FindComments(r)
    \/ StartGetGradesByRestaurantId(r) \/ FindGrades(r)
    \/ StartAddComment(r) \/ FindForAddComment(r) \/ SaveAddComment(r)
    \/ StartUpdateGradeById(r) \/ FindForUpdateGrade(r) \/ SaveUpdateGrade(r)
    \/ StartDeleteRestaurant(r) \/ FindByIdAndDelete(r)

\* every handler, over a store that can also fail
NextFaults ==
  \E r \in Reqs :
    \/ StartGetAllRestaurants(r) \/ FindRestaurants(r) \/ CountRestaurants(r)
    \/ StartCreateRestaurant(r) \/ SaveNewRestaurant(r)
    \/ StartUpdateRestaurant(r) \/ FindByIdAndUpdate(r)
    \/ StartDeleteRestaurant(r) \/ FindByIdAndDelete(r)
    \/ StartGetAllCommentsById(r) \/ FindComments(r)
    \/ StartAddComment(r) \/ FindForAddComment(r) \/ SaveAddComment(r)
    \/ StartUpdateCommentById(r) \/ FindForUpdateComment(r) \/ SaveUpdateComment(r)
    \/ StartDeleteCommentById(r) \/ FindForDeleteComment(r) \/ SaveDeleteComment(r)
    \/ StartGetGradesByRestaurantId(r) \/ FindGrades(r)
    \/ StartUpdateGradeById(r) \/ FindForUpdateGrade(r) \/ SaveUpdateGrade(r)
    \/ StoreRejects(r)

SpecComments == InitFrom({SeedRated}) /\ [][NextComments]_vars
SpecGrades == InitFrom({<<>>, SeedRated}) /\ [][NextGrades]_vars
SpecCrud == InitFrom({<<>>, SeedRated}) /\ [][NextCrud]_vars
SpecListing == InitFrom({<<>>, SeedThree}) /\ [][NextListing]_vars
SpecReads == InitFrom({SeedRated}) /\ [][NextReads]_vars
\* a run that has one request less to serve
InitServed(seeds) ==
  /\ db \in seeds
  /\ nextId = 1
  /\ req = [r \in Reqs |-> Idle]
  /\ res = NoRes
  /\ ops = 1
  /\ proc = Running("earlierRoutes+controller")
SpecFaults == InitServed({SeedRated}) /\ [][NextFaults]_vars
SpecRace == InitFrom({SeedRace}) /\ [][NextComments]_vars

\* listings only: the store never changes
NextPaging ==
  \E r \in Reqs :
    StartGetAllRestaurants(r) \/ FindRestaurants(r) \/ CountRestaurants(r)
SpecPaging == InitFrom({<<>>, SeedThree}) /\ [][NextPaging]_vars

\* a process from its start, serving reads and deletions
InitBoot(seeds) ==
  /\ db \in seeds
  /\ nextId = 1
  /\ req = [r \in Reqs |-> Idle]
  /\ res = NoRes
  /\ ops = 0
  /\ proc \in {Booting(t) : t \in Trees}
NextStartup ==
  \/ Bootstrap
  \/ ConnectionOpens
  \/ ConnectionFails
  \/ \E r \in Reqs :
       \/ StartGetGradesByRestaurantId(r) \/ FindGrades(r)
       \/ StartDeleteRestaurant(r) \/ FindByIdAndDelete(r)
       \/ StoreRejects(r)
       \/ SearchUnrouted(r)
SpecStartup == InitBoot({SeedRated}) /\ [][NextStartup]_vars

\* ================================================================ claims
\* the step of request r that leaves program point pc of handler op
Leaves(r, op, pc) ==
  req[r].op = op /\ req[r].pc = pc /\ req'[r] # req[r]

\* the response this step sends, if it answers a request of handler op
Answers(op) == res'.pc = "done" /\ res'.op = op

WellFormedPage(q) ==
  /\ ~ParseInt(q.limit).nan /\ ParseInt(q.limit).n >= 1
  /\ ~ParseInt(q.page).nan /\ ParseInt(q.page).n >= 1

\* s lists every document of the collection once, in the order sort asks for
InRequestedOrder(s, store, sort) ==
  /\ Len(s) = Cardinality(DOMAIN store)
  /\ \A id \in DOMAIN store : \E i \in 1..Len(s) : s[i] = store[id]
  /\ \A i, j \in 1..Len(s) :
       i < j => /\ sort = "name" => NameRank(s[i].name) <= NameRank(s[j].name)
                /\ sort = "-name" => NameRank(s[i].name) >= NameRank(s[j].name)

\* C1: for a page >= 1 and a limit >= 1, getAllRestaurants reads as its page
\* exactly the documents at positions (page-1)*limit .. (page-1)*limit+limit-1
\* of the collection in the requested order (at most limit of them), and then
\* answers 200 with that page as data and pages = ceil(total / limit).
C1_Pagination ==
  [][\A r \in Reqs :
       LET q == req[r].q
           page == ParseInt(q.page).n
           limit == ParseInt(q.limit).n
           first == (page - 1) * limit
       IN WellFormedPage(q) =>
            /\ Leaves(r, "getAllRestaurants", "find") =>
                 /\ req'[r].pc = "count"
                 /\ Len(req'[r].found) <= limit
                 /\ \E p \in Orderings(DOMAIN db) :
                      LET s == [i \in DOMAIN p |-> db[p[i]]] IN
                      /\ InRequestedOrder(s, db, q.sort)
                      /\ Len(req'[r].found) =
                           IF Len(s) - first >= limit THEN limit
                           ELSE IF Len(s) > first THEN Len(s) - first ELSE 0
                      /\ \A k \in 1..Len(req'[r].found) :
                           req'[r].found[k] = s[first + k]
            /\ Leaves(r, "getAllRestaurants", "count") =>
                 /\ Answers("getAllRestaurants")
                 /\ res'.status = 200
                 /\ res'.data.data = req[r].found
                 /\ res'.data.total = Cardinality(DOMAIN db)
                 /\ res'.data.pages * limit >= res'.data.total
                 /\ (res'.data.pages - 1) * limit < res'.data.total
                      \/ (res'.data.pages = 0 /\ res'.data.total = 0)
  ]_vars

\* a second page that is full, of a collection with a further page
C1_Witness ==
  /\ res.pc = "done" /\ res.op = "getAllRestaurants" /\ res.status = 200
  /\ res.q.page = "2" /\ res.q.limit = "1" /\ res.q.sort = "name"
  /\ Len(res.data.data) = 1 /\ res.data.pages = 3
  /\ res.data.data[1].name = "A"

\* the identified elements of an embedded sequence
HasElement(seq, id) == \E i \in 1..Len(seq) : seq[i]._id # NoId /\ seq[i]._id = id

\* C2: once addComment has answered 201, the comment it appended comes back
\* with an identifier under which updateCommentById finds that comment in the
\* stored sequence, so that the update can succeed and be listed.
C2_AddThenUpdate ==
  (res.pc = "done" /\ res.op = "addComment" /\ res.status = 201) =>
    LET returned == res.data[Len(res.data)]
        stored == db[res.id].comments
    IN /\ returned._id # NoId
       /\ IndexOfId(stored, returned._id) = Len(stored)
       /\ stored[Len(stored)].comment = res.cbody.comment

\* C3: once addComment has answered 201, deleteCommentById called with the
\* identifier of the appended comment finds it, and the sequence left after
\* its removal holds no element with that identifier and one element less.
C3_AddThenDelete ==
  (res.pc = "done" /\ res.op = "addComment" /\ res.status = 201) =>
    LET cid == res.data[Len(res.data)]._id
        stored == db[res.id].comments
    IN /\ HasElement(stored, cid)
       /\ ~HasElement(PullId(stored, cid), cid)
       /\ Len(PullId(stored, cid)) = Len(stored) - 1

CarriesFields(d, body) ==
  /\ body.hasName => d.name = body.name
  /\ body.hasComments =>
       /\ Len(d.comments) = Len(body.comments)
       /\ \A i \in 1..Len(d.comments) :
            /\ d.comments[i]._id = body.comments[i]._id
            /\ d.comments[i].comment = body.comments[i].comment
            /\ d.comments[i].date = CastDate(body.comments[i].date)
  /\ body.hasGrades =>
       /\ Len(d.grades) = Len(body.grades)
       /\ \A i \in 1..Len(d.grades) :
            /\ d.grades[i].score = CastNumber(body.grades[i].score)
            /\ d.grades[i].date = CastDate(body.grades[i].date)

C6_CreateRestaurant ==
  [][\A r \in Reqs :
       (Leaves(r, "createRestaurant", "save") /\ req[r].rbody.castable) =>
          /\ Answers("createRestaurant") /\ res'.status = 201
          /\ res'.data._id \notin DOMAIN db
          /\ res'.data._id # NoId
          /\ DOMAIN db' = DOMAIN db \cup {res'.data._id}
          /\ \A i \in DOMAIN db : db'[i] = db[i]
          /\ db'[res'.data._id] = res'.data
          /\ CarriesFields(res'.data, req[r].rbody)
  ]_vars

\* a create answered 201 in a store that already held the seeded documents
C6_Witness ==
  /\ res.pc = "done" /\ res.op = "createRestaurant" /\ res.status = 201
  /\ res.rbody.hasComments /\ DOMAIN db = {11, 12, res.data._id}
  /\ res.data._id \notin {11, 12}

CommentOps == {"addComment", "updateCommentById"}
Missing(x) == x = Undefined \/ x = ""

\* C7: addComment and updateCommentById answer 400 whenever the comment or the
\* date of the body is missing or empty, go on to the store only with both
\* present, and a step that answers 400 leaves every document unchanged.
C7_CommentValidation ==
  [][/\ (res'.pc = "done" /\ res'.op \in CommentOps) =>
          /\ (Missing(res'.cbody.comment) \/ Missing(res'.cbody.date)) =>
               res'.status = 400
          /\ res'.status = 400 => db' = db
     /\ \A r \in Reqs :
          (req[r].pc = "idle" /\ req'[r].op \in CommentOps) =>
             ~Missing(req'[r].cbody.comment) /\ ~Missing(req'[r].cbody.date)
  ]_vars

\* an addComment on the stored restaurant 11 with an empty comment, answered 400
C7_Witness ==
  /\ res.pc = "done" /\ res.op = "addComment" /\ res.status = 400
  /\ res.id = 11 /\ 11 \in DOMAIN db /\ res.cbody.comment = ""
  /\ res.cbody.date = "2024-01-01"

C9_AppendComment ==
  [][\A r \in Reqs :
       (Leaves(r, "addComment", "save") /\ res'.status = 201) =>
          LET old == db[req[r].id].comments
              new == db'[req[r].id].comments
          IN /\ Len(new) = Len(old) + 1
             /\ SubSeq(new, 1, Len(old)) = old
             /\ new[Len(new)].comment = req[r].cbody.comment
             /\ new[Len(new)].date = CastDate(req[r].cbody.date)
             /\ new[Len(new)]._id # NoId
             /\ ~HasElement(old, new[Len(new)]._id)
             /\ db[req[r].id] = req[r].doc => res'.data = new
  ]_vars

UpdateOps == {"updateCommentById", "updateGradeById"}
ElementsOf(op, d) == IF op = "updateCommentById" THEN d.comments ELSE d.grades
ElementMissing(op) ==
  IF op = "updateCommentById" THEN "Comentario no encontrado"
  ELSE "Calificación no encontrada"
\* the element the body of request rq asks for, on top of element old
Overwritten(rq, old) ==
  IF rq.op = "updateCommentById"
  THEN [_id |-> old._id, comment |-> rq.cbody.comment,
        date |-> CastDate(rq.cbody.date)]
  ELSE [_id |-> old._id, score |-> CastNumber(rq.gbody.score),
        date |-> CastDate(rq.gbody.date)]
BodyDate(rq) == IF rq.op = "updateCommentById" THEN rq.cbody.date ELSE rq.gbody.date

ListOps == {"getAllCommentsById", "getGradesByRestaurantId"}

C13_LostUpdate ==
  [][/\ db' # db => (res'.pc = "done" /\ res'.status \in {200, 201})
     /\ \A r \in Reqs :
          LET id == req[r].id
              i == req[r].idx
              read == req[r].doc.comments[i]
              mine == Overwritten(req[r], read)
          IN (/\ Leaves(r, "updateCommentById", "save")
              /\ id \in DOMAIN db /\ db[id].v = req[r].doc.v
              /\ DateCastable(req[r].cbody.date)
              /\ db[id].comments[i] # read) =>
                /\ res'.status = 200 /\ res'.data = mine
                /\ mine.comment # read.comment =>
                     db'[id].comments[i].comment = mine.comment
                /\ mine.date # read.date =>
                     db'[id].comments[i].date = mine.date
  ]_vars

\* one update of comment 101 has answered 200 and is stored; another update
\* of the same comment, which read the restaurant before that, is about to
\* save a different text and date over it
C13_Witness ==
  \E r \in Reqs :
    /\ res.pc = "done" /\ res.op = "updateCommentById" /\ res.status = 200
    /\ res.id = 11 /\ res.sub = 101 /\ res.doc.comments[1] = SeedOld
    /\ res.data = [_id |-> 101, comment |-> "a", date |-> 20240101]
    /\ db[11].comments = <<res.data>>
    /\ req[r].op = "updateCommentById" /\ req[r].pc = "save"
    /\ req[r].id = 11 /\ req[r].sub = 101 /\ req[r].doc.comments[1] = SeedOld
    /\ req[r].cbody = [comment |-> "b", date |-> "2024-02-02"]

CommentMutators == {"addComment", "updateCommentById", "deleteCommentById"}
\* the save of this request cannot be accepted by the store: the date of
\* its body is no date, or its restaurant is no longer stored
SaveRejected(rq) ==
  \/ rq.id \notin DOMAIN db
  \/ rq.op # "deleteCommentById" /\ CastDate(rq.cbody.date) = NoDate

InputFault(rs) ==
  CASE rs.op \in {"addComment", "updateCommentById"} ->
         Missing(rs.cbody.comment) \/ Missing(rs.cbody.date)
    [] rs.op = "updateGradeById" ->
         rs.gbody.score = Undefined \/ Missing(rs.gbody.date)
    [] rs.op \in {"createRestaurant", "updateRestaurant"} -> ~rs.rbody.castable
    [] OTHER -> FALSE
\* the restaurant, or the element of it, that rs asked for is not stored
Absent(rs) ==
  \/ rs.id \notin DOMAIN db
  \/ rs.op \in {"updateCommentById", "deleteCommentById"}
       /\ ~HasElement(db[rs.id].comments, rs.sub)
  \/ rs.op = "updateGradeById" /\ ~HasElement(db[rs.id].grades, rs.sub)

\* C15: a response that reports a failure of the store has status 500, a
\* response has status 400 only when a field of the input is missing or
\* malformed, and status 404 only when the restaurant or the element asked
\* for is absent.
C15_Taxonomy ==
  res.pc = "done" =>
    /\ res.message = StoreError => res.status = 500
    /\ res.status = 400 => InputFault(res)
    /\ res.status = 404 => Absent(res)

Statuses == {200, 201, 400, 404, 500}

C17_MessagePresent ==
  (res.pc = "done" /\ res.status \in {400, 404, 500}) => res.message # ""

\* the catch block of deleteCommentById has answered 500 with its message
C17_Witness ==
  /\ res.pc = "done" /\ res.op = "deleteCommentById" /\ res.status = 500
  /\ res.message = "Error al eliminar el comentario"
  /\ res.doc = db[11]

\* C18: without a sort parameter, the page getAllRestaurants reads lists the
\* documents newest first: of any two documents on it, the one created later
\* (the one with the larger generated _id) comes first.
C18_NewestFirst ==
  [][\A r \in Reqs :
       (/\ Leaves(r, "getAllRestaurants", "find")
        /\ req[r].q.sort = Undefined /\ req'[r].pc = "count") =>
          LET page == req'[r].found
          IN \A i, j \in 1..Len(page) : i < j => page[i]._id > page[j]._id
  ]_vars

\* C19: whatever the query string, the page and the limit a getAllRestaurants
\* request works with are integers >= 1, and they are 1 and 10 when the
\* parameter is absent.
C19_PageAndLimit ==
  \A r \in Reqs :
    req[r].op = "getAllRestaurants" =>
      LET q == req[r].q
      IN /\ PageOf(q) >= 1 /\ LimitOf(q) >= 1
         /\ q.page = Undefined => PageOf(q) = 1
         /\ q.limit = Undefined => LimitOf(q) = 10

Identified(seq) ==
  /\ \A i \in 1..Len(seq) : seq[i]._id # NoId
  /\ \A i, j \in 1..Len(seq) : i # j => seq[i]._id # seq[j]._id

\* C20: in every reachable state, every comment of a stored restaurant has
\* an identifier that no other comment of that restaurant has, and likewise
\* every grade.
C20_UniqueIdentifiers ==
  \A id \in DOMAIN db :
    Identified(db[id].comments) /\ Identified(db[id].grades)

\* the binding of method m and path p in the routes module the process
\* loaded has a handler the controller defines
Reaches(m, p) ==
  \E i \in 1..Len(RoutesOf(proc.tree)) :
    /\ RoutesOf(proc.tree)[i].method = m
    /\ RoutesOf(proc.tree)[i].path = p
    /\ RoutesOf(proc.tree)[i].handler \in ExportsOf(proc.tree)

\* C21: once the routes module is loaded, every method and path of the
\* thirteen endpoints of the interface (POST and DELETE on grades and
\* GET /search among them) is bound to a handler the controller defines, and
\* the process serves requests
C21_EveryEndpointBound ==
  proc.phase # "boot" =>
    /\ proc.phase # "crashed"
    /\ \A i \in 1..Len(RestaurantRoutes) :
         Reaches(RestaurantRoutes[i].method, RestaurantRoutes[i].path)

\* C22: a search with an origin (lng, lat) is answered 200 with the
\* restaurants that match every filter given, nearest first: every response
\* to GET /search comes from the search handler and is a 200
C22_SearchAnswers ==
  (res.pc = "done" /\ res.op = "searchAndSortRestaurants") =>
    /\ Reaches("GET", "/search")
    /\ res.status = 200

\* C23: the store connection is opened once, at process start; when opening
\* it fails the process ends with exit code 1, and from then on no request
\* is accepted or answered
C23_ConnectOrExit ==
  [][/\ proc'.phase # "boot" => proc'.connects = 1
     /\ proc'.conn = "failed" => (proc'.phase = "exited" /\ proc'.exit = 1)
     /\ proc.phase = "exited" =>
          (res'.pc # "done" /\ req' = req /\ ops' = ops /\ db' = db)]_vars
\* the connection failed while a request was waiting for the store
C23_Witness ==
  /\ proc.conn = "failed"
  /\ proc.phase = "exited"
  /\ \E r \in Reqs : req[r].pc # "idle"

\* C30: the server accepts no request until the store connection has been
\* opened successfully: every request is accepted with the connection open
C30_ListenAfterConnect ==
  [][ops' > ops => (proc.phase = "listening" /\ proc.conn = "open")]_vars

ValidatedOps == {"addComment", "updateCommentById", "updateGradeById"}

ReadOps == {"getAllRestaurants", "getAllCommentsById", "getGradesByRestaurantId"}

\* C25: an operation that answers 400 or 404, and every read operation
\* (getAllRestaurants, getAllCommentsById, getGradesByRestaurantId), leaves
\* the whole store unchanged: the store changes only in the step that sends
\* the response of a request, that response is neither a 400 nor a 404, and
\* the request is not a read.
C25_ReadsAndRefusalsWriteNothing ==
  [][/\ (res'.pc = "done" /\ res'.status \in {400, 404}) =>
          (db' = db /\ nextId' = nextId)
     /\ \A r \in Reqs :
          (req'[r] # req[r] /\ (req[r].op \in ReadOps \/ req'[r].op \in ReadOps)) =>
            (db' = db /\ nextId' = nextId)
     /\ db' # db =>
          (res'.pc = "done" /\ res'.status \notin {400, 404}
             /\ res'.op \notin ReadOps)]_vars
\* a read answered 200 over a store that holds documents, while a mutation
\* of a grade is about to save
C25_Witness ==
  /\ res.pc = "done" /\ res.op = "getGradesByRestaurantId" /\ res.status = 200
  /\ DOMAIN db # {}
  /\ \E r \in Reqs : req[r].op = "updateGradeById" /\ req[r].pc = "save"

CommentWriters == {"addComment", "updateCommentById", "deleteCommentById"}
GradeWriters == {"updateGradeById"}

\* C26: a successful sub-document mutation of restaurant r changes only the
\* sequence it targets: a comment operation leaves the grades of r and its
\* scalar fields as they are in the store, a grade operation leaves its
\* comments and scalar fields, and no other restaurant and not the set of
\* stored restaurants changes.
C26_OnlyTargetSequence ==
  [][(res'.pc = "done" /\ res'.status \in {200, 201}
        /\ res'.op \in CommentWriters \cup GradeWriters) =>
       /\ DOMAIN db' = DOMAIN db
       /\ res'.id \in DOMAIN db
       /\ \A k \in DOMAIN db : k # res'.id => db'[k] = db[k]
       /\ db'[res'.id]._id = db[res'.id]._id
       /\ db'[res'.id].name = db[res'.id].name
       /\ res'.op \in CommentWriters => db'[res'.id].grades = db[res'.id].grades
       /\ res'.op \in GradeWriters => db'[res'.id].comments = db[res'.id].comments]_vars
\* a comment was appended to a restaurant whose grades had changed since the
\* handler loaded it, with another restaurant stored
C26_Witness ==
  /\ res.pc = "done" /\ res.op = "addComment" /\ res.status = 201
  /\ res.doc.grades # db[res.id].grades
  /\ Cardinality(DOMAIN db) > 1

\* C27: a restaurant deleted while a sub-document mutation had loaded it and
\* not yet saved stays deleted: the save of a handler whose restaurant is no
\* longer stored writes nothing and answers 500, and an id enters the store
\* only as the generated id of a createRestaurant.
C27_NoResurrection ==
  [][/\ \A r \in Reqs :
          (req[r].pc = "save" /\ req'[r] # req[r]
             /\ req[r].op \in CommentWriters \cup GradeWriters
             /\ req[r].id \notin DOMAIN db) =>
            (db' = db /\ res'.pc = "done" /\ res'.status = 500)
     /\ \A k \in DOMAIN db' \ DOMAIN db :
          /\ res'.op = "createRestaurant" /\ res'.status = 201
          /\ k = res'.doc._id /\ k \in GenIds]_vars
\* the save of a deleteCommentById that had loaded restaurant 11 failed
\* because a deleteRestaurant removed it in between
C27_Witness ==
  /\ res.pc = "done" /\ res.op = "deleteCommentById" /\ res.status = 500
  /\ res.doc._id = res.id
  /\ res.id \notin DOMAIN db

\* C28: in every 200 response of getAllRestaurants, total is the number of
\* documents the collection had when the page was read, also when
\* createRestaurant or deleteRestaurant run between the two reads. A first
\* page shorter than its limit holds the whole collection of that moment, so
\* for such a response total is the length of data.
C28_SnapshotTotal ==
  [][(Answers("getAllRestaurants") /\ res'.status = 200
        /\ SkipOf(res'.q) = 0
        /\ Len(res'.data.data) < Abs(LimitOf(res'.q))) =>
       res'.data.total = Len(res'.data.data)]_vars

\* the ids of the documents of a page
IdsOf(page) == {page[i]._id : i \in 1..Len(page)}

\* C29: over an unchanged store, with one limit >= 1 and one sort, the pages
\* 1..pages hold every restaurant exactly once, so two different pages read
\* with the same limit and sort share no restaurant; and a page beyond pages
\* is answered 200 with empty data.
C29_PagesPartition ==
  [][/\ \A r1, r2 \in Reqs :
          (/\ req'[r1].op = "getAllRestaurants" /\ req'[r1].pc = "count"
           /\ req'[r2].op = "getAllRestaurants" /\ req'[r2].pc = "count"
           /\ WellFormedPage(req'[r1].q) /\ WellFormedPage(req'[r2].q)
           /\ req'[r1].q.limit = req'[r2].q.limit
           /\ req'[r1].q.sort = req'[r2].q.sort
           /\ PageOf(req'[r1].q) # PageOf(req'[r2].q)) =>
            IdsOf(req'[r1].found) \cap IdsOf(req'[r2].found) = {}
     /\ (Answers("getAllRestaurants") /\ WellFormedPage(res'.q)
           /\ PageOf(res'.q) > Ceil(Cardinality(DOMAIN db), LimitOf(res'.q))) =>
          (res'.status = 200 /\ res'.data.data = <<>>)]_vars
====
